---- MODULE Spec2Model ----
(***************************************************************************)
(* Model of src/src/pipeline.py (paper-analysis-system):                   *)
(*   - PaperPipeline: process_all_pdfs / process_single_pdf and the        *)
(*     statistics dictionary and documents table they update;              *)
(*   - chunk_text: the overlapping-window chunker;                         *)
(*   - build_vector_store: chunk + embed + index construction.             *)
(*                                                                         *)
(* Five specifications share the variables:                                *)
(*   Spec / FairSpec  the ingestion pipeline (chunker and builder idle)    *)
(*   ChunkSpec        chunk_text applied to bounded inputs                 *)
(*   BuildSpec        build_vector_store applied to bounded corpora        *)
(*   RagSpec          build_rag_index and search on one pipeline           *)
(*   ParseSpec        parse_metadata (abstract part) on bounded texts      *)
(*                                                                         *)
(* Texts are sequences of one-character strings.  A file name is a record  *)
(* [stem, ext]; "a.pdf" is [stem |-> "a", ext |-> "pdf"].                  *)
(*                                                                         *)
(* Environment not modelled: os.path.getsize (pipeline.py:600) is assumed  *)
(* to succeed on a file whose text was just extracted.                     *)
(***************************************************************************)
EXTENDS Integers, Sequences, FiniteSets, TLC

VARIABLES
    stats,      \* self.stats: [total, successful, failed, errors]
    db,         \* rows of the documents table, in insertion order
    pc,         \* position of process_all_pdfs: "ready", "running", "returned", "aborted"
    pdf_files,  \* the list enumerated by the current pass
    idx,        \* number of loop iterations of the current pass that have run
    passes,     \* number of calls of process_all_pdfs so far
    calls,      \* the calls of process_single_pdf made by the current pass, in order
    c_in,       \* chunk_text arguments
    c_out,      \* chunk_text outcome
    b_in,       \* build_vector_store argument paper_texts
    b_out,      \* build_vector_store outcome
    db_before,  \* the documents table as it was when the current pass started
    rag_papers, \* the (id, full_text) rows get_all_papers returns to build_rag_index
    rag_built,  \* whether build_rag_index has been called on this pipeline
    rag_index,  \* the retained index/catalog pair, or "unset"
    rag_out,    \* outcome of the last build_rag_index or search call
    p_in,       \* parse_metadata argument full_text, as its list of lines
    p_out       \* parse_metadata outcome

vars == <<stats, db, pc, pdf_files, idx, passes, calls, c_in, c_out, b_in, b_out,
          db_before, rag_papers, rag_built, rag_index, rag_out, p_in, p_out>>

pipeVars == <<stats, db, pc, pdf_files, idx, passes, calls, db_before>>
chunkVars == <<c_in, c_out>>
buildVars == <<b_in, b_out>>
ragVars == <<rag_papers, rag_built, rag_index, rag_out>>
parseVars == <<p_in, p_out>>

----------------------------------------------------------------------------
(* Bounds *)

MaxPasses == 2

MaxTextLen == 3

MaxChunkSize == 4

MaxPapers == 2

DirEntries ==
    { [stem |-> "a", ext |-> "pdf"],
      [stem |-> "b", ext |-> "pdf"],
      [stem |-> "notes", ext |-> "txt"] }

Alphabet == {"a", "b"}

----------------------------------------------------------------------------
(* Helpers *)

Range(s) == {s[i] : i \in 1..Len(s)}

Injective(s) == \A i, j \in 1..Len(s) : s[i] = s[j] => i = j

\* os.listdir: the entries of the directory, each once, in arbitrary order
Listings ==
    { s \in UNION { [1..n -> DirEntries] : n \in 0..Cardinality(DirEntries) } :
        Injective(s) }

\* f.endswith('.pdf')
EndsWithPdf(f) == f.ext = "pdf"

Min(a, b) == IF a < b THEN a ELSE b

\* Python slice text[start:end] for 0 <= start, on a 0-based text
Slice(text, start, end) ==
    IF start >= Len(text) THEN <<>>
    ELSE SubSeq(text, start + 1, Min(end, Len(text)))

\* the chunker and the builder before any call
NoInput == [text |-> <<>>, chunk_size |-> 0, overlap |-> 0]

NoOutput == [state |-> "idle"]

ChunkIdle == c_in = NoInput /\ c_out = NoOutput

BuildIdle == b_in = <<>> /\ b_out = NoOutput

\* the retrieval side and the metadata parser before any call
RagIdle ==
    /\ rag_papers = <<>>
    /\ rag_built = FALSE
    /\ rag_index = "unset"
    /\ rag_out = NoOutput

ParseIdle == p_in = <<>> /\ p_out = NoOutput

----------------------------------------------------------------------------
(* PaperPipeline *)

\* outcomes of extract_pdf_text: success, FileNotFoundError, any other exception
ExtractOutcomes == {"ok", "not_found", "other"}

\* outcomes of insert_paper: the row is committed, or sqlite raises
InsertOutcomes == {"ok", "error"}

\* result['error'] of extract_pdf_text
ExtractError(f, ex) ==
    IF ex = "not_found" THEN [msg |-> "File not found", path |-> f]
    ELSE [msg |-> "Error proccessing PDF", path |-> f]

\* str(e) of the exception raised by insert_paper
InsertError(f) == [msg |-> "Database error", path |-> f]

\* insert_paper: one row appended, id assigned by AUTOINCREMENT
insert_paper(d, f) ==
    Append(d, [id |-> Len(d) + 1, filename |-> f, status |-> "SUCCESS"])

InitStats == [total |-> 0, successful |-> 0, failed |-> 0, errors |-> <<>>]

\* process_single_pdf without the try/except around insert_paper
process_single_pdf_unguarded(st, d, f, ex, ins) ==
    IF ex # "ok"
    THEN [stats |-> [st EXCEPT !.failed = @ + 1,
                               !.errors = Append(@, [file |-> f, error |-> ExtractError(f, ex)])],
          db |-> d, ret |-> FALSE, raised |-> FALSE]
    ELSE IF ins = "ok"
    THEN [stats |-> [st EXCEPT !.successful = @ + 1],
          db |-> insert_paper(d, f), ret |-> TRUE, raised |-> FALSE]
    ELSE [stats |-> st, db |-> d, ret |-> FALSE, raised |-> TRUE]

\* process_single_pdf whose except branch records the error but not the count
process_single_pdf_uncounted(st, d, f, ex, ins) ==
    IF ex # "ok"
    THEN [stats |-> [st EXCEPT !.failed = @ + 1,
                               !.errors = Append(@, [file |-> f, error |-> ExtractError(f, ex)])],
          db |-> d, ret |-> FALSE, raised |-> FALSE]
    ELSE IF ins = "ok"
    THEN [stats |-> [st EXCEPT !.successful = @ + 1],
          db |-> insert_paper(d, f), ret |-> TRUE, raised |-> FALSE]
    ELSE [stats |-> [st EXCEPT !.errors = Append(@, [file |-> f, error |-> InsertError(f)])],
          db |-> d, ret |-> FALSE, raised |-> FALSE]

\* process_single_pdf that stores a row with status ERROR when extraction fails
process_single_pdf_error_row(st, d, f, ex, ins) ==
    IF ex # "ok"
    THEN [stats |-> [st EXCEPT !.failed = @ + 1,
                               !.errors = Append(@, [file |-> f, error |-> ExtractError(f, ex)])],
          db |-> Append(d, [id |-> Len(d) + 1, filename |-> f, status |-> "ERROR"]),
          ret |-> FALSE, raised |-> FALSE]
    ELSE IF ins = "ok"
    THEN [stats |-> [st EXCEPT !.successful = @ + 1],
          db |-> insert_paper(d, f), ret |-> TRUE, raised |-> FALSE]
    ELSE [stats |-> [st EXCEPT !.failed = @ + 1,
                               !.errors = Append(@, [file |-> f, error |-> InsertError(f)])],
          db |-> d, ret |-> FALSE, raised |-> FALSE]

process_single_pdf(st, d, f, ex, ins) ==
    IF ex # "ok"
    THEN [stats |-> [st EXCEPT !.failed = @ + 1,
                               !.errors = Append(@, [file |-> f, error |-> ExtractError(f, ex)])],
          db |-> d, ret |-> FALSE, raised |-> FALSE]
    ELSE IF ins = "ok"
    THEN [stats |-> [st EXCEPT !.successful = @ + 1],
          db |-> insert_paper(d, f), ret |-> TRUE, raised |-> FALSE]
    ELSE [stats |-> [st EXCEPT !.failed = @ + 1,
                               !.errors = Append(@, [file |-> f, error |-> InsertError(f)])],
          db |-> d, ret |-> FALSE, raised |-> FALSE]

PipeInit ==
    /\ stats = InitStats
    /\ db = <<>>
    /\ pc = "ready"
    /\ pdf_files = <<>>
    /\ idx = 0
    /\ passes = 0
    /\ calls = <<>>
    /\ db_before = <<>>

\* process_all_pdfs up to the loop: enumerate, set total, return at once when empty
StartPass ==
    /\ pc \in {"ready", "returned"}
    /\ passes < MaxPasses
    /\ \E listing \in Listings :
         LET files == SelectSeq(listing, EndsWithPdf) IN
           /\ pdf_files' = files
           /\ stats' = [stats EXCEPT !.total = Len(files)]
           /\ pc' = IF Len(files) = 0 THEN "returned" ELSE "running"
    /\ idx' = 0
    /\ calls' = <<>>
    /\ passes' = passes + 1
    /\ db_before' = db
    /\ UNCHANGED <<db, chunkVars, buildVars, ragVars, parseVars>>

\* one iteration of the loop: process_single_pdf on the next file
ProcessNext ==
    /\ pc = "running"
    /\ idx < Len(pdf_files)
    /\ \E ex \in ExtractOutcomes, ins \in InsertOutcomes :
         LET f == pdf_files[idx + 1]
             r == process_single_pdf(stats, db, f, ex, ins)
         IN /\ stats' = r.stats
            /\ db' = r.db
            /\ calls' = Append(calls, [file |-> f, extract |-> ex,
                                       insert |-> IF ex = "ok" THEN ins ELSE "none",
                                       ret |-> r.ret])
            /\ pc' = IF r.raised THEN "aborted" ELSE "running"
    /\ idx' = idx + 1
    /\ UNCHANGED <<pdf_files, passes, db_before, chunkVars, buildVars, ragVars, parseVars>>

\* the loop is exhausted: the summary is logged and process_all_pdfs returns
FinishPass ==
    /\ pc = "running"
    /\ idx = Len(pdf_files)
    /\ pc' = "returned"
    /\ UNCHANGED <<stats, db, pdf_files, idx, passes, calls, db_before,
                   chunkVars, buildVars, ragVars, parseVars>>

----------------------------------------------------------------------------
(* Specifications *)

Init == PipeInit /\ ChunkIdle /\ BuildIdle /\ RagIdle /\ ParseIdle

Next == StartPass \/ ProcessNext \/ FinishPass

Spec == Init /\ [][Next]_vars

FairSpec == Spec /\ WF_vars(ProcessNext) /\ WF_vars(FinishPass)

----------------------------------------------------------------------------
(* chunk_text *)

\* the texts of at most n characters over Alphabet
Texts(n) == UNION { [1..k -> Alphabet] : k \in 0..n }

\* "abcdefghij"
ExampleText == <<"a", "b", "c", "d", "e", "f", "g", "h", "i", "j">>

ChunkInputs ==
    [text : Texts(MaxTextLen) \cup {ExampleText},
     chunk_size : 1..MaxChunkSize,
     overlap : 0..MaxChunkSize]

DefaultChunkSize == 1000

DefaultOverlap == 200

\* chunk_text.  The loop body calls chunk.append(chunk) on the slice just
\* taken, which is a str and has no append: the first iteration raises
\* AttributeError and nothing is ever added to chunks.  There is no check of
\* step before the loop.
chunk_text(text, chunk_size, overlap) ==
    LET chunks == <<>>
        start == 0
        step == chunk_size - overlap
    IN IF start < Len(text)
       THEN LET end == start + chunk_size
                chunk == Slice(text, start, end)
            IN [state |-> "raised", error |-> "AttributeError", chunks |-> <<>>]
       ELSE [state |-> "returned", error |-> "none", chunks |-> chunks]

ChunkInit ==
    /\ PipeInit
    /\ c_in \in ChunkInputs
    /\ c_out = NoOutput
    /\ BuildIdle
    /\ RagIdle
    /\ ParseIdle

ChunkCall ==
    /\ c_out.state = "idle"
    /\ c_out' = chunk_text(c_in.text, c_in.chunk_size, c_in.overlap)
    /\ UNCHANGED <<c_in, pipeVars, buildVars, ragVars, parseVars>>

ChunkNext == ChunkCall

ChunkSpec == ChunkInit /\ [][ChunkNext]_vars

----------------------------------------------------------------------------
(* build_vector_store *)

BuildInputs ==
    UNION { [1..n -> [paper_id : 1..MaxPapers, text : Texts(MaxTextLen)]] :
              n \in 0..MaxPapers }

\* the metadata entries of one paper's chunks: enumerate(chunks)
ChunkEntries(paper_id, chunks) ==
    [k \in 1..Len(chunks) |->
        [paper_id |-> paper_id, chunk_text |-> chunks[k], chunk_index |-> k - 1]]

\* step 1 of build_vector_store: chunk the papers from position i on; an
\* exception of chunk_text leaves the function
RECURSIVE ChunkAllPapers(_, _, _, _)
ChunkAllPapers(paper_texts, i, all_chunks, chunk_metadata) ==
    IF i > Len(paper_texts)
    THEN [state |-> "chunked", error |-> "none",
          all_chunks |-> all_chunks, chunk_metadata |-> chunk_metadata]
    ELSE LET r == chunk_text(paper_texts[i].text, DefaultChunkSize, DefaultOverlap) IN
         IF r.state = "raised"
         THEN [state |-> "raised", error |-> r.error,
               all_chunks |-> all_chunks, chunk_metadata |-> chunk_metadata]
         ELSE ChunkAllPapers(paper_texts, i + 1,
                             all_chunks \o r.chunks,
                             chunk_metadata \o ChunkEntries(paper_texts[i].paper_id, r.chunks))

\* create_embeddings: one vector per text, in order (a vector is named by its text)
create_embeddings(texts) == [k \in 1..Len(texts) |-> [of |-> texts[k]]]

\* build_vector_store.  After step 2 the function prints embedding.shape;
\* the name embedding is not defined (the array is called embeddings), so
\* the statement raises NameError and the index is never built.
build_vector_store(paper_texts) ==
    LET c == ChunkAllPapers(paper_texts, 1, <<>>, <<>>) IN
    IF c.state = "raised"
    THEN [state |-> "raised", error |-> c.error, vectors |-> <<>>,
          index_size |-> 0, catalog |-> <<>>]
    ELSE LET embeddings == create_embeddings(c.all_chunks) IN
         [state |-> "raised", error |-> "NameError", vectors |-> embeddings,
          index_size |-> 0, catalog |-> <<>>]

BuildInit ==
    /\ PipeInit
    /\ ChunkIdle
    /\ b_in \in BuildInputs
    /\ b_out = NoOutput
    /\ RagIdle
    /\ ParseIdle

BuildCall ==
    /\ b_out.state = "idle"
    /\ b_out' = build_vector_store(b_in)
    /\ UNCHANGED <<b_in, pipeVars, chunkVars, ragVars, parseVars>>

BuildNext == BuildCall

BuildSpec == BuildInit /\ [][BuildNext]_vars

----------------------------------------------------------------------------
(* query_rag, PaperPipeline.build_rag_index, PaperPipeline.search *)

MaxTopK == 2

Questions == {"fitness", "leptin"}

\* query_rag.  The function consists of its docstring: whatever the
\* arguments, nothing is embedded or searched, no error is raised and the
\* call returns None.
query_rag(question, faiss_index, chunk_metadata, top_k) ==
    [op |-> "search", state |-> "returned", error |-> "none", result |-> [kind |-> "None"]]

RagInit ==
    /\ PipeInit
    /\ ChunkIdle
    /\ BuildIdle
    /\ ParseIdle
    /\ rag_papers \in BuildInputs
    /\ rag_built = FALSE
    /\ rag_index = "unset"
    /\ rag_out = NoOutput

\* build_rag_index, as its comments lay it out: get all papers, build the
\* vector store, save the index and the chunk metadata on the pipeline.  An
\* exception of build_vector_store leaves the method before anything is saved.
BuildRagIndex ==
    /\ LET r == build_vector_store(rag_papers) IN
         IF r.state = "raised"
         THEN /\ rag_index' = rag_index
              /\ rag_out' = [op |-> "build", state |-> "raised", error |-> r.error,
                             result |-> [kind |-> "None"]]
         ELSE /\ rag_index' = [faiss_index |-> r.vectors, chunk_metadata |-> r.catalog]
              /\ rag_out' = [op |-> "build", state |-> "returned", error |-> "none",
                             result |-> [kind |-> "None"]]
    /\ rag_built' = TRUE
    /\ UNCHANGED <<rag_papers, pipeVars, chunkVars, buildVars, parseVars>>

\* search(question, top_k): hands the question and the retained pair to query_rag
Search ==
    /\ \E question \in Questions, top_k \in 1..MaxTopK :
         rag_out' =
           IF rag_index = "unset"
           THEN query_rag(question, "unset", "unset", top_k)
           ELSE query_rag(question, rag_index.faiss_index, rag_index.chunk_metadata, top_k)
    /\ UNCHANGED <<rag_papers, rag_built, rag_index, pipeVars, chunkVars, buildVars, parseVars>>

RagNext == BuildRagIndex \/ Search

RagSpec == RagInit /\ [][RagNext]_vars

----------------------------------------------------------------------------
(* parse_metadata: the abstract part (pipeline.py:172-212)                  *)
(* full_text is given as lines, the list full_text.split('\n') returns: at  *)
(* least one line, none containing a newline.  The list comprehension at    *)
(* line 129 binds its stripped, non-empty lines to the name line, which the *)
(* loops overwrite; lines stays the raw list and is the one searched.       *)

MaxLines == 3

NoiseLineLen == 20

AbstractMinLen == 100

AbstractMaxLen == 3000

Rep(c, n) == [i \in 1..n |-> c]

Whitespace == {" ", "\t"}

UpperToLower ==
    [
      A |-> "a", B |-> "b", C |-> "c", D |-> "d", E |-> "e", F |-> "f", G |-> "g",
      H |-> "h", I |-> "i", J |-> "j", K |-> "k", L |-> "l", M |-> "m", N |-> "n",
      O |-> "o", P |-> "p", Q |-> "q", R |-> "r", S |-> "s", T |-> "t", U |-> "u",
      V |-> "v", W |-> "w", X |-> "x", Y |-> "y", Z |-> "z" ]

\* str.lower()
Lower(t) ==
    [i \in 1..Len(t) |-> IF t[i] \in DOMAIN UpperToLower THEN UpperToLower[t[i]] ELSE t[i]]

RECURSIVE FirstNonSpace(_, _)
FirstNonSpace(t, i) ==
    IF i > Len(t) \/ t[i] \notin Whitespace THEN i ELSE FirstNonSpace(t, i + 1)

RECURSIVE LastNonSpace(_, _)
LastNonSpace(t, i) ==
    IF i < 1 \/ t[i] \notin Whitespace THEN i ELSE LastNonSpace(t, i - 1)

\* str.strip()
Strip(t) == SubSeq(t, FirstNonSpace(t, 1), LastNonSpace(t, Len(t)))

\* h in t, for a non-empty h
Contains(t, h) ==
    \E i \in 1..(Len(t) - Len(h) + 1) : t[i] = h[1] /\ SubSeq(t, i, i + Len(h) - 1) = h

\* ' '.join(ls)
RECURSIVE JoinSp(_)
JoinSp(ls) ==
    IF Len(ls) = 0 THEN <<>>
    ELSE IF Len(ls) = 1 THEN ls[1]
    ELSE ls[1] \o <<" ">> \o JoinSp(Tail(ls))

AbstractWord == <<"a", "b", "s", "t", "r", "a", "c", "t">>

section_headers ==
    << <<"b", "a", "c", "k", "g", "r", "o", "u", "n", "d">>,
       <<"i", "n", "t", "r", "o", "d", "u", "c", "t", "i", "o", "n">>,
       <<"m", "e", "t", "h", "o", "d", "s">>,
       <<"k", "e", "y", "w", "o", "r", "d", "s">>,
       <<"c", "o", "r", "r", "e", "s", "p", "o", "n", "d", "e", "n", "c", "e">> >>

\* the lines the inputs are made of
LinePool ==
    { <<>>,
      <<"A", "b", "s", "t", "r", "a", "c", "t">>,
      <<"A", "b", "s", "t", "r", "a", "c", "t", " ">>,
      <<"t", "h", "e", " ", "a", "b", "s", "t", "r", "a", "c", "t">>,
      <<"I", "n", "t", "r", "o", "d", "u", "c", "t", "i", "o", "n">>,
      <<" ">> \o Rep("y", 18) \o <<" ">>,
      Rep("x", 100),
      Rep("x", 101),
      Rep("x", 2999) }

ParseInputs == UNION { [1..n -> LinePool] : n \in 1..MaxLines }

NoneValue == [kind |-> "None"]

\* the header search (176-180): the 0-based index of the first line that is
\* "abstract" when lowered, or -1
RECURSIVE find_abstract_index(_, _)
find_abstract_index(lines, i) ==
    IF i >= Len(lines) THEN -1
    ELSE IF Lower(lines[i + 1]) = AbstractWord THEN i
    ELSE find_abstract_index(lines, i + 1)

\* the collection loop (188-200) from 0-based index i on
RECURSIVE collect_abstract_lines(_, _, _)
collect_abstract_lines(lines, i, abstract_lines) ==
    IF i >= Len(lines) THEN abstract_lines
    ELSE LET line == lines[i + 1]
             line_lower == Lower(line)
         IN IF \E k \in 1..Len(section_headers) : Contains(line_lower, section_headers[k])
            THEN abstract_lines
            ELSE IF Len(line) < NoiseLineLen
            THEN collect_abstract_lines(lines, i + 1, abstract_lines)
            ELSE collect_abstract_lines(lines, i + 1, Append(abstract_lines, line))

\* accept_abstract without the cut to 3000 characters
accept_abstract_uncut(abstract_lines) ==
    IF abstract_lines = <<>> THEN NoneValue
    ELSE LET abstract_text == Strip(JoinSp(abstract_lines)) IN
         IF Len(abstract_text) > AbstractMinLen
         THEN [kind |-> "str", text |-> abstract_text]
         ELSE NoneValue

\* lines 202-210: join, strip, length test, cut
accept_abstract(abstract_lines) ==
    IF abstract_lines = <<>> THEN NoneValue
    ELSE LET abstract_text == Strip(JoinSp(abstract_lines)) IN
         IF Len(abstract_text) > AbstractMinLen
         THEN [kind |-> "str", text |-> Slice(abstract_text, 0, AbstractMaxLen)]
         ELSE NoneValue

\* parse_metadata, abstract part; the locals abstract_index and
\* abstract_lines are reported with the result
parse_metadata(lines) ==
    LET abstract_index == find_abstract_index(lines, 0) IN
    IF abstract_index # -1 /\ abstract_index + 1 < Len(lines)
    THEN LET abstract_lines == collect_abstract_lines(lines, abstract_index + 1, <<>>) IN
         [state |-> "returned", abstract |-> accept_abstract(abstract_lines),
          abstract_index |-> abstract_index, abstract_lines |-> abstract_lines]
    ELSE [state |-> "returned", abstract |-> NoneValue,
          abstract_index |-> abstract_index, abstract_lines |-> <<>>]

ParseInit ==
    /\ PipeInit
    /\ ChunkIdle
    /\ BuildIdle
    /\ RagIdle
    /\ p_in \in ParseInputs
    /\ p_out = NoOutput

ParseCall ==
    /\ p_out.state = "idle"
    /\ p_out' = parse_metadata(p_in)
    /\ UNCHANGED <<p_in, pipeVars, chunkVars, buildVars, ragVars>>

ParseNext == ParseCall

ParseSpec == ParseInit /\ [][ParseNext]_vars

----------------------------------------------------------------------------
(* Claims about the pipeline *)

CallFiles == [i \in 1..Len(calls) |-> calls[i].file]

CallError(c) ==
    IF c.extract # "ok" THEN ExtractError(c.file, c.extract) ELSE InsertError(c.file)

FailedCalls == SelectSeq(calls, LAMBDA c : ~c.ret)

PassedCalls == SelectSeq(calls, LAMBDA c : c.ret)

\* the (filename, error) pairs of the failed calls of the current pass, in call order
PassErrors ==
    [i \in 1..Len(FailedCalls) |->
        [file |-> FailedCalls[i].file, error |-> CallError(FailedCalls[i])]]

CallMade == Len(calls') = Len(calls) + 1

LastCall == calls'[Len(calls')]

\* C1: whenever process_all_pdfs has returned, successful + failed = total
C1_CountsAddUp ==
    pc = "returned" => stats.successful + stats.failed = stats.total

\* C2: a pass that has entered its loop always runs to its return, and by
\* then process_single_pdf was called on every enumerated file exactly once,
\* in order, whatever the outcomes of the files before it
C2_PassCompletes ==
    (pc = "running") ~> (pc = "returned" /\ CallFiles = pdf_files)

C2_Witness ==
    /\ pc = "returned"
    /\ Len(calls) = 2
    /\ calls[1].insert = "error"
    /\ calls[2].extract = "other"

\* C3: every call of process_single_pdf adds 1 to exactly one of successful
\* and failed, successful when it returns True and failed when it returns
\* False, and leaves the other counter as it was
C3_OneCounterPerCall ==
    [][CallMade =>
         \/ /\ LastCall.ret
            /\ stats'.successful = stats.successful + 1
            /\ stats'.failed = stats.failed
         \/ /\ ~LastCall.ret
            /\ stats'.failed = stats.failed + 1
            /\ stats'.successful = stats.successful]_vars

C3_Witness ==
    /\ Len(calls) = 2
    /\ calls[1].insert = "error"
    /\ calls[2].ret
    /\ stats.successful = 1
    /\ stats.failed = 1

\* C4: a call of process_single_pdf whose extraction fails appends the
\* file's error to the error list, counts it as failed, returns False and
\* leaves the documents table unchanged
C4_ExtractionFailureLeavesDb ==
    [][(CallMade /\ LastCall.extract # "ok") =>
         /\ db' = db
         /\ ~LastCall.ret
         /\ stats'.failed = stats.failed + 1
         /\ stats'.errors =
              Append(stats.errors,
                     [file |-> LastCall.file,
                      error |-> ExtractError(LastCall.file, LastCall.extract)])]_vars

C4_Witness ==
    /\ Len(calls) = 2
    /\ calls[1].ret
    /\ calls[2].extract = "not_found"
    /\ Len(db) = 1
    /\ Len(stats.errors) = 1

\* C5: whenever process_all_pdfs has returned, the error list is exactly the
\* (filename, error) pairs of the documents that failed in that pass, in
\* processing order, and its length is the failed counter
C5_ErrorsOfThePass ==
    pc = "returned" =>
        /\ stats.errors = PassErrors
        /\ Len(stats.errors) = stats.failed

\* C6: whenever process_all_pdfs has returned, all four statistics describe
\* the pass that just ran and nothing of the passes before it
C6_StatsResetPerPass ==
    pc = "returned" =>
        /\ stats.total = Len(pdf_files)
        /\ stats.successful = Len(PassedCalls)
        /\ stats.failed = Len(FailedCalls)
        /\ stats.errors = PassErrors

----------------------------------------------------------------------------
(* Claims about chunk_text and build_vector_store *)

ChunkDone == c_out.state # "idle"

\* the number of k >= 0 with k * step < n, for step > 0
WindowCount(n, step) == (n + step - 1) \div step

\* text[k*step : k*step + chunk_size] for k = 0, 1, ... while k*step < len(text)
Windows(text, chunk_size, overlap) ==
    LET step == chunk_size - overlap IN
    [k \in 1..WindowCount(Len(text), step) |->
        Slice(text, (k - 1) * step, (k - 1) * step + chunk_size)]

\* C7: for chunk_size > overlap >= 0, chunk_text returns exactly the windows
\* text[k*step : k*step + chunk_size], k*step < len(text); in particular
\* chunk_text("abcdefghij", 4, 2) is ["abcd", "cdef", "efgh", "ghij", "ij"]
C7_ChunkIsWindows ==
    (ChunkDone /\ c_in.chunk_size > c_in.overlap) =>
        /\ c_out.state = "returned"
        /\ c_out.chunks = Windows(c_in.text, c_in.chunk_size, c_in.overlap)
        /\ (c_in.text = ExampleText /\ c_in.chunk_size = 4 /\ c_in.overlap = 2) =>
             c_out.chunks = << <<"a", "b", "c", "d">>, <<"c", "d", "e", "f">>,
                               <<"e", "f", "g", "h">>, <<"g", "h", "i", "j">>,
                               <<"i", "j">> >>

\* C8: for chunk_size > overlap >= 0 and a non-empty text, chunk k (from 0)
\* is the span of the text that starts at k*step, the spans cover every
\* position of the text, and each span except the last two ends exactly
\* overlap characters after the next one starts
C8_SpansCoverAndOverlap ==
    (ChunkDone /\ c_in.chunk_size > c_in.overlap /\ Len(c_in.text) > 0) =>
        LET step == c_in.chunk_size - c_in.overlap
            n == Len(c_out.chunks)
            from(k) == (k - 1) * step
            to(k) == from(k) + Len(c_out.chunks[k])
        IN /\ c_out.state = "returned"
           /\ \A k \in 1..n : c_out.chunks[k] = Slice(c_in.text, from(k), to(k))
           /\ \A q \in 0..(Len(c_in.text) - 1) : \E k \in 1..n : from(k) <= q /\ q < to(k)
           /\ \A k \in 1..(n - 2) : to(k) - from(k + 1) = c_in.overlap

\* C9: chunk_text ends either by returning a sequence or with a
\* configuration error, and with overlap >= chunk_size it ends with the
\* configuration error
C9_DegenerateStepRejected ==
    ChunkDone =>
        /\ c_out.state = "returned" \/ c_out.error = "ConfigurationError"
        /\ c_in.overlap >= c_in.chunk_size =>
             (c_out.state = "raised" /\ c_out.error = "ConfigurationError")

\* the catalog the claim describes: documents in input order, each one's
\* windows in order with their 0-based ordinals
RECURSIVE CatalogOf(_, _)
CatalogOf(paper_texts, i) ==
    IF i > Len(paper_texts) THEN <<>>
    ELSE ChunkEntries(paper_texts[i].paper_id,
                      Windows(paper_texts[i].text, DefaultChunkSize, DefaultOverlap))
         \o CatalogOf(paper_texts, i + 1)

\* C10: build_vector_store returns, for every corpus, an index and a catalog
\* with len(catalog) = number of embedded vectors = index size, and catalog
\* position i is the document id, ordinal and text of the chunk of vector i
C10_CatalogAlignedWithIndex ==
    b_out.state # "idle" =>
        /\ b_out.state = "returned"
        /\ Len(b_out.catalog) = Len(b_out.vectors)
        /\ Len(b_out.vectors) = b_out.index_size
        /\ b_out.catalog = CatalogOf(b_in, 1)
        /\ \A i \in 1..Len(b_out.catalog) :
             b_out.vectors[i] = [of |-> b_out.catalog[i].chunk_text]

----------------------------------------------------------------------------
(* Claims about search *)

\* C11: a search made before build_rag_index was ever called fails with the
\* "no index built" error; a search made after it was called returns a
\* result list, which is empty when the corpus is empty
C11_SearchNeedsIndex ==
    (rag_out.state # "idle" /\ rag_out.op = "search") =>
        IF ~rag_built
        THEN rag_out.state = "raised" /\ rag_out.error = "IndexNotBuiltError"
        ELSE /\ rag_out.state = "returned"
             /\ rag_out.result.kind = "list"
             /\ rag_papers = <<>> => rag_out.result.items = <<>>

----------------------------------------------------------------------------
(* Claims about parse_metadata *)

ParseDone == p_out.state # "idle"

\* the 0-based index of the first line that is "abstract" once trimmed and
\* lowered, or -1
RECURSIVE TrimmedHeaderIndex(_, _)
TrimmedHeaderIndex(lines, i) ==
    IF i >= Len(lines) THEN -1
    ELSE IF Lower(Strip(lines[i + 1])) = AbstractWord THEN i
    ELSE TrimmedHeaderIndex(lines, i + 1)

\* C12: the header parse_metadata takes is the first line equal to
\* "abstract" after trimming and lowering (the whole line, not a part of
\* it), and without such a line, or with it as the last line, the abstract
\* is None
C12_HeaderIsTrimmedWholeLine ==
    ParseDone =>
        /\ p_out.abstract_index = TrimmedHeaderIndex(p_in, 0)
        /\ (TrimmedHeaderIndex(p_in, 0) = -1 \/ TrimmedHeaderIndex(p_in, 0) + 1 = Len(p_in)) =>
             p_out.abstract = NoneValue

\* C13 as stated: the abstract is None or a text of more than 100 and at most
\* 3000 characters with no whitespace at either end
C13_AbstractTrimmedAndBounded ==
    (ParseDone /\ p_out.abstract # NoneValue) =>
        /\ Len(p_out.abstract.text) > AbstractMinLen
        /\ Len(p_out.abstract.text) <= AbstractMaxLen
        /\ Strip(p_out.abstract.text) = p_out.abstract.text

IsPrefix(a, b) == Len(a) <= Len(b) /\ a = SubSeq(b, 1, Len(a))

\* C13 amended: the accumulated lines joined with single spaces and trimmed
\* are accepted exactly when they are longer than 100 characters; the
\* abstract is then their first 3000 characters, so it has more than 100 and
\* at most 3000 characters and no leading whitespace; otherwise it is None
C13_AbstractCutOfTrimmedJoin ==
    ParseDone =>
        LET joined == Strip(JoinSp(p_out.abstract_lines)) IN
        IF Len(joined) > AbstractMinLen
        THEN /\ p_out.abstract # NoneValue
             /\ IsPrefix(p_out.abstract.text, joined)
             /\ Len(p_out.abstract.text) = Min(Len(joined), AbstractMaxLen)
             /\ Len(p_out.abstract.text) > AbstractMinLen
             /\ Len(p_out.abstract.text) <= AbstractMaxLen
             /\ p_out.abstract.text[1] \notin Whitespace
        ELSE p_out.abstract = NoneValue

\* an abstract that was cut: the join was longer than 3000 characters
C13_Witness ==
    /\ ParseDone
    /\ p_out.abstract # NoneValue
    /\ Len(Strip(JoinSp(p_out.abstract_lines))) > AbstractMaxLen
    /\ Len(p_out.abstract.text) = AbstractMaxLen

----------------------------------------------------------------------------
(* Claims about the records a pass inserts *)

\* the rows the current pass has added to the documents table
AddedRows == SubSeq(db, Len(db_before) + 1, Len(db))

RowsFor(f) == {i \in 1..Len(AddedRows) : AddedRows[i].filename = f}

\* C14: at every point of a pass, a document counted as successful has
\* exactly one row inserted by the pass, a document counted as failed has
\* none, and the number of rows the pass has added is the successful counter
C14_RowsMatchSuccessful ==
    pc \in {"running", "returned"} =>
        /\ \A i \in 1..Len(calls) :
             Cardinality(RowsFor(calls[i].file)) = IF calls[i].ret THEN 1 ELSE 0
        /\ Len(AddedRows) = stats.successful

====
